---- MODULE Spec2Model ----
(***************************************************************************)
(* Sales Analytics Dashboard (sales.py): record generation, sidebar        *)
(* filters, KPI calculation and the grouped series behind the charts.      *)
(*                                                                         *)
(* Units: Sales and Profit are held in cents (the code rounds both to two  *)
(* decimals), Discount in percent.  Sums are exact integer sums; means are *)
(* reduced fractions [num, den], with 0/0 standing for NaN.                *)
(*                                                                         *)
(* A DataFrame is a sequence of rows; every row carries its index label    *)
(* (field Index), which a filtered view keeps from its source.             *)
(*                                                                         *)
(* Streamlit executes the script top to bottom once per session start and  *)
(* once more after every widget change, so one script run is one step.     *)
(***************************************************************************)
EXTENDS Integers, Sequences, FiniteSets, TLC

VARIABLES
    df,           \* the full dataset held by the current script run
    df0,          \* the dataset as generated by the first script run
    other_df,     \* the dataset generated by a second, independent program run
    selection,    \* value of the four sidebar multiselects
    show_raw,     \* value of the "Show Raw Data" checkbox
    filtered_df,  \* the filtered view of the current pass
    kpis,         \* result of calculate_kpis in the current pass
    charts,       \* series computed by create_visualizations, or NoCharts
    rendered,     \* page elements produced by the current pass
    runs          \* number of script runs so far (0: main has not run yet)

vars == <<df, df0, other_df, selection, show_raw, filtered_df, kpis, charts,
          rendered, runs>>

----------------------------------------------------------------------------
(* Bounds *)

MaxRows == 3      \* rows generated / rows of an input dataset
MaxRuns == 2      \* script runs explored in one session
MaxFaker == 2     \* distinct start states of Faker's unseeded generator
MaxActive == 2    \* widgets moved off their default in an input selection

----------------------------------------------------------------------------
(* Program constants *)

Seed == 42

n_rows == MaxRows

categories == <<"Electronics", "Clothing", "Home & Kitchen", "Books", "Toys", "Sports">>
regions == <<"North", "South", "East", "West">>
payment_methods == <<"Credit Card", "PayPal", "Bank Transfer", "Cash on Delivery">>
customer_segments == <<"Consumer", "Corporate", "Home Office">>
shipping_types == <<"Standard Class", "Second Class", "First Class", "Same Day">>
discounts == <<0, 10, 20, 30>>

Range(s) == {s[i] : i \in DOMAIN s}

Dims == {"Region", "Category", "Payment_Method", "Customer_Segment"}

----------------------------------------------------------------------------
(* Record generation *)

\* One step of a seeded pseudo-random generator: the next state is a fixed
\* function of the current one.
Lcg(s) == (s * 5 + 3) % 64

RECURSIVE Stream(_, _)
\* State of a generator seeded with seed after k draws.
Stream(seed, k) == IF k = 0 THEN seed % 64 ELSE Lcg(Stream(seed, k - 1))

\* random.choice(list) on the k-th draw of the generator seeded with seed
choice(list, seed, k) == list[(Stream(seed, k) % Len(list)) + 1]

\* random.randint(1, 10) on the k-th draw
randint_1_10(seed, k) == 1 + (Stream(seed, k) % 10)

\* round(np.random.exponential(scale=100), 2), in cents
skewed_sales(seed, k) == Stream(seed, k) * 25

\* max(round(np.random.normal(loc=10, scale=20), 2), 0), in cents
skewed_profit(seed, k) ==
    LET profit == Stream(seed, k) * 100 - 2000
    IN  IF profit > 0 THEN profit ELSE 0

\* fake.uuid4(): the i-th value drawn from Faker's own generator, which the
\* script never seeds; f is the state that generator happens to start in.
uuid4(f, i) == f * 1000 + i

FakerStates == 1..MaxFaker

\* The columns of the data dict drawn from the generators seeded at start-up
\* (random.seed, np.random.seed).  Each column is drawn for all rows before
\* the next one, so column c of row i is draw (c * n_rows + i) of its stream.
seeded_columns ==
    [i \in 1..n_rows |->
        [Region           |-> choice(regions, Seed, i),
         Category         |-> choice(categories, Seed, n_rows + i),
         Sales            |-> skewed_sales(Seed, i),
         Quantity         |-> randint_1_10(Seed, 2 * n_rows + i),
         Discount         |-> choice(discounts, Seed, 3 * n_rows + i),
         Profit           |-> skewed_profit(Seed, n_rows + i),
         Payment_Method   |-> choice(payment_methods, Seed, 4 * n_rows + i),
         Customer_Segment |-> choice(customer_segments, Seed, 5 * n_rows + i),
         Shipping_Type    |-> choice(shipping_types, Seed, 6 * n_rows + i)]]

\* df = pd.DataFrame(data): the seeded columns, the columns drawn from Faker
\* (Order ID stands for all of them: Order Date, Customer ID, Customer Name,
\* Sub-Category, Product ID and Product Name are drawn the same way), and
\* the index labels 0, 1, 2, ...
Generate(f) ==
    [i \in 1..n_rows |->
        [Index |-> i - 1, Order_ID |-> uuid4(f, i)] @@ seeded_columns[i]]

----------------------------------------------------------------------------
(* Filter engine *)

\* ['All'] + sorted(df[col].unique().tolist())
Options(d, col) == {"All"} \cup {d[i][col] : i \in DOMAIN d}

\* default=['All'] of every multiselect
DefaultSelection == [c \in Dims |-> {"All"}]

\* filtered_df[filtered_df[col].isin(values)]
isin(d, col, values) == SelectSeq(d, LAMBDA r : r[col] \in values)

\* apply_filters with the segment filter taken from df instead of filtered_df,
\* which throws away the filters applied before it
apply_filters_restart(d, sel) ==
    LET f1 == IF "All" \notin sel["Region"]
              THEN isin(d, "Region", sel["Region"]) ELSE d
        f2 == IF "All" \notin sel["Category"]
              THEN isin(f1, "Category", sel["Category"]) ELSE f1
        f3 == IF "All" \notin sel["Payment_Method"]
              THEN isin(f2, "Payment_Method", sel["Payment_Method"]) ELSE f2
    IN  IF "All" \notin sel["Customer_Segment"]
        THEN isin(d, "Customer_Segment", sel["Customer_Segment"]) ELSE f3

\* skip(sel, c): the test that lets dimension c through unfiltered
FilterWith(d, sel, skip(_, _)) ==
    LET f1 == IF ~skip(sel, "Region")
              THEN isin(d, "Region", sel["Region"]) ELSE d
        f2 == IF ~skip(sel, "Category")
              THEN isin(f1, "Category", sel["Category"]) ELSE f1
        f3 == IF ~skip(sel, "Payment_Method")
              THEN isin(f2, "Payment_Method", sel["Payment_Method"]) ELSE f2
    IN  IF ~skip(sel, "Customer_Segment")
        THEN isin(f3, "Customer_Segment", sel["Customer_Segment"]) ELSE f3

\* apply_filters testing selected == ['All'] instead of 'All' in selected
apply_filters_only_all(d, sel) ==
    FilterWith(d, sel, LAMBDA x, c : x[c] = {"All"})

\* apply_filters whose region filter scans the rows from the second one on
apply_filters_off_by_one(d, sel) ==
    LET f1 == IF "All" \notin sel["Region"]
              THEN (IF d = <<>> THEN d ELSE isin(Tail(d), "Region", sel["Region"]))
              ELSE d
    IN  FilterWith(f1, [sel EXCEPT !["Region"] = {"All"}],
                   LAMBDA x, c : "All" \in x[c])

apply_filters(d, sel) ==
    LET f0 == d
        f1 == IF "All" \notin sel["Region"]
              THEN isin(f0, "Region", sel["Region"]) ELSE f0
        f2 == IF "All" \notin sel["Category"]
              THEN isin(f1, "Category", sel["Category"]) ELSE f1
        f3 == IF "All" \notin sel["Payment_Method"]
              THEN isin(f2, "Payment_Method", sel["Payment_Method"]) ELSE f2
        f4 == IF "All" \notin sel["Customer_Segment"]
              THEN isin(f3, "Customer_Segment", sel["Customer_Segment"]) ELSE f3
    IN  f4

----------------------------------------------------------------------------
(* Metrics calculator *)

RECURSIVE SumCol(_, _)
\* df[col].sum()
SumCol(d, col) == IF d = <<>> THEN 0 ELSE Head(d)[col] + SumCol(Tail(d), col)

RECURSIVE GCD(_, _)
GCD(a, b) == IF b = 0 THEN a ELSE GCD(b, a % b)

\* The number n / d as a reduced fraction; 0 / 0 is NaN
Frac(n, d) ==
    IF d = 0 THEN [num |-> n, den |-> 0]
    ELSE LET g == GCD(n, d) IN [num |-> n \div g, den |-> d \div g]

Zero == Frac(0, 1)
NaN == Frac(0, 0)

\* df[col].mean(): the mean of an empty column is NaN
MeanCol(d, col) == Frac(SumCol(d, col), Len(d))

\* calculate_kpis without the test for an empty set
calculate_kpis_unguarded(d) ==
    [total_sales      |-> SumCol(d, "Sales"),
     average_profit   |-> MeanCol(d, "Profit"),
     average_quantity |-> MeanCol(d, "Quantity"),
     total_orders     |-> Len(d)]

calculate_kpis(d) ==
    IF Len(d) = 0
    THEN [total_sales |-> 0, average_profit |-> Zero,
          average_quantity |-> Zero, total_orders |-> 0]
    ELSE [total_sales      |-> SumCol(d, "Sales"),
          average_profit   |-> MeanCol(d, "Profit"),
          average_quantity |-> MeanCol(d, "Quantity"),
          total_orders     |-> Len(d)]

----------------------------------------------------------------------------
(* Aggregation pipeline: the series of plots 2 and 8 *)

\* groupby orders its group keys ascending: the region labels in that order
regions_sorted == <<"East", "North", "South", "West">>

RECURSIVE GroupSum(_, _, _, _)
\* df.groupby(col)[val].sum(): one entry per key that has a row, in key order
GroupSum(d, col, val, keys) ==
    IF keys = <<>> THEN <<>>
    ELSE LET rows == isin(d, col, {Head(keys)})
             rest == GroupSum(d, col, val, Tail(keys))
         IN  IF rows = <<>> THEN rest
             ELSE <<[key |-> Head(keys), value |-> SumCol(rows, val)]>> \o rest

\* position of the first largest value of a non-empty series
ArgMax(s) ==
    CHOOSE i \in DOMAIN s :
        /\ \A j \in DOMAIN s : s[j].value <= s[i].value
        /\ \A j \in 1..(i - 1) : s[j].value < s[i].value

RECURSIVE sort_values_desc(_)
\* Series.sort_values(ascending=False)
sort_values_desc(s) ==
    IF s = <<>> THEN <<>>
    ELSE LET i == ArgMax(s)
         IN  <<s[i]>> \o sort_values_desc(SubSeq(s, 1, i - 1) \o SubSeq(s, i + 1, Len(s)))

\* sales_by_region summing the Profit column
sales_by_region_profit(d) ==
    sort_values_desc(GroupSum(d, "Region", "Profit", regions_sorted))

\* df.groupby('Region')['Sales'].sum().sort_values(ascending=False)
sales_by_region(d) == sort_values_desc(GroupSum(d, "Region", "Sales", regions_sorted))

\* df.groupby(['Customer Segment', 'Shipping Type']).size(): one count per
\* pair that has a row
PairSize(d) ==
    LET pairs == {<<d[i]["Customer_Segment"], d[i]["Shipping_Type"]>> : i \in DOMAIN d}
    IN  [p \in pairs |->
            Cardinality({i \in DOMAIN d :
                <<d[i]["Customer_Segment"], d[i]["Shipping_Type"]>> = p})]

\* .unstack(fill_value=0): a grid with one row per first key and one column
\* per second key of the counted pairs; a pair without a count holds 0
unstack_fill0(size) ==
    LET rowkeys == {p[1] : p \in DOMAIN size}
        colkeys == {p[2] : p \in DOMAIN size}
    IN  [p \in rowkeys \X colkeys |-> IF p \in DOMAIN size THEN size[p] ELSE 0]

order_counts(d) == unstack_fill0(PairSize(d))

create_visualizations(d) ==
    [sales_by_region |-> sales_by_region(d),
     order_counts    |-> order_counts(d)]

\* what the page holds where create_visualizations did not run
NoCharts == [sales_by_region |-> <<>>, order_counts |-> <<>>]

----------------------------------------------------------------------------
(* main: one rendering pass over dataset d with the widgets' current values *)

\* main calling create_visualizations whatever the size of the view
main_always_charts(d, sel, raw) ==
    LET f == apply_filters(d, sel)
        k == calculate_kpis(f)
    IN  [filtered_df |-> f,
         kpis        |-> k,
         charts      |-> create_visualizations(f),
         rendered    |->
             {"kpi_cards", "download_full", "charts"}
             \cup (IF Len(f) > 0 THEN {"download_filtered"} ELSE {})
             \cup (IF raw /\ Len(f) > 0 THEN {"raw_table"} ELSE {})
             \cup (IF raw /\ Len(f) = 0 THEN {"info_no_data"} ELSE {})]

main(d, sel, raw) ==
    LET f == apply_filters(d, sel)
        k == calculate_kpis(f)
    IN  [filtered_df |-> f,
         kpis        |-> k,
         charts      |-> IF Len(f) > 0 THEN create_visualizations(f) ELSE NoCharts,
         rendered    |->
             {"kpi_cards", "download_full"}
             \cup (IF Len(f) > 0 THEN {"download_filtered"} ELSE {})
             \cup (IF raw /\ Len(f) > 0 THEN {"raw_table"} ELSE {})
             \cup (IF raw /\ Len(f) = 0 THEN {"info_no_data"} ELSE {})
             \cup (IF Len(f) > 0 THEN {"charts"} ELSE {"warning_no_data"})]

\* the page state left by a pass
Render(d, sel, raw) ==
    LET out == main(d, sel, raw)
    IN  /\ filtered_df' = out.filtered_df
        /\ kpis' = out.kpis
        /\ charts' = out.charts
        /\ rendered' = out.rendered

----------------------------------------------------------------------------
(* The program: a Streamlit session *)

\* First script run of the session, all widgets at their defaults; other_df
\* is what a second run of the program generates from the same seeds.
Init ==
    \E f \in FakerStates, g \in FakerStates :
        LET d   == Generate(f)
            out == main(d, DefaultSelection, FALSE)
        IN  /\ df = d
            /\ df0 = d
            /\ other_df = Generate(g)
            /\ selection = DefaultSelection
            /\ show_raw = FALSE
            /\ filtered_df = out.filtered_df
            /\ kpis = out.kpis
            /\ charts = out.charts
            /\ rendered = out.rendered
            /\ runs = 1

\* A widget change makes Streamlit run the whole script again: the dataset
\* is generated anew (the seeded streams restart, Faker's generator goes on
\* from wherever it is) and main renders it.
Rerun(sel, raw) ==
    /\ runs < MaxRuns
    /\ \E f \in FakerStates :
          LET d == Generate(f)
          IN  /\ df' = d
              /\ Render(d, sel, raw)
    /\ selection' = sel
    /\ show_raw' = raw
    /\ runs' = runs + 1
    /\ UNCHANGED <<df0, other_df>>

\* the user changes one multiselect
SetFilter(c) ==
    \E s \in SUBSET Options(df, c) :
        /\ s # selection[c]
        /\ Rerun([selection EXCEPT ![c] = s], show_raw)

SetRegion == SetFilter("Region")
SetCategory == SetFilter("Category")
SetPayment == SetFilter("Payment_Method")
SetSegment == SetFilter("Customer_Segment")

\* the user ticks or unticks "Show Raw Data"
ToggleRaw == Rerun(selection, ~show_raw)

Next == SetRegion \/ SetCategory \/ SetPayment \/ SetSegment \/ ToggleRaw

Spec == Init /\ [][Next]_vars

----------------------------------------------------------------------------
(* The core functions on arbitrary inputs: a dataset of up to MaxRows rows  *)
(* drawn from a pool of order rows, and any selection its widgets offer.    *)

SampleRows ==
    { [Order_ID |-> 1, Region |-> "North", Category |-> "Books",
       Sales |-> 1000, Quantity |-> 1, Discount |-> 0, Profit |-> 0,
       Payment_Method |-> "PayPal", Customer_Segment |-> "Consumer",
       Shipping_Type |-> "Standard Class"],
      [Order_ID |-> 2, Region |-> "North", Category |-> "Toys",
       Sales |-> 2000, Quantity |-> 4, Discount |-> 10, Profit |-> 500,
       Payment_Method |-> "Cash on Delivery", Customer_Segment |-> "Corporate",
       Shipping_Type |-> "Same Day"],
      [Order_ID |-> 3, Region |-> "South", Category |-> "Books",
       Sales |-> 500, Quantity |-> 2, Discount |-> 30, Profit |-> 250,
       Payment_Method |-> "PayPal", Customer_Segment |-> "Corporate",
       Shipping_Type |-> "Standard Class"],
      [Order_ID |-> 4, Region |-> "South", Category |-> "Toys",
       Sales |-> 2000, Quantity |-> 10, Discount |-> 0, Profit |-> 125,
       Payment_Method |-> "Cash on Delivery", Customer_Segment |-> "Home Office",
       Shipping_Type |-> "First Class"] }

\* pd.DataFrame(data): the rows get the index labels 0, 1, 2, ...
DataFrame(rows) ==
    [i \in DOMAIN rows |-> [Index |-> i - 1] @@ rows[i]]

Datasets ==
    UNION {{DataFrame(rows) : rows \in [1..n -> SampleRows]} : n \in 0..MaxRows}

InitCore ==
    /\ df \in Datasets
    /\ df0 = df
    /\ other_df = df
    /\ \E r \in SUBSET Options(df, "Region"), c \in SUBSET Options(df, "Category"),
          p \in SUBSET Options(df, "Payment_Method"),
          s \in SUBSET Options(df, "Customer_Segment") :
            selection = [Region |-> r, Category |-> c, Payment_Method |-> p,
                         Customer_Segment |-> s]
    /\ Cardinality({c \in Dims : selection[c] # {"All"}}) <= MaxActive
    /\ show_raw = FALSE
    /\ filtered_df = <<>>
    /\ kpis = calculate_kpis(<<>>)
    /\ charts = NoCharts
    /\ rendered = {}
    /\ runs = 0

\* main is applied once to the chosen inputs
CallMain ==
    /\ runs = 0
    /\ Render(df, selection, show_raw)
    /\ runs' = 1
    /\ UNCHANGED <<df, df0, other_df, selection, show_raw>>

NextCore == CallMain

SpecCore == InitCore /\ [][NextCore]_vars

----------------------------------------------------------------------------
(* Properties *)

\* main has rendered the page at least once
Ran == runs > 0

\* row r meets every constraint of selection sel
Matches(r, sel) == \A c \in Dims : "All" \in sel[c] \/ r[c] \in sel[c]

\* row r meets the constraints of sel on the dimensions other than c
MatchesExcept(r, sel, c) ==
    \A k \in Dims \ {c} : "All" \in sel[k] \/ r[k] \in sel[k]

\* the sum of column col over the rows of d, taken from the last row down
RECURSIVE Total(_, _)
Total(d, col) ==
    IF Len(d) = 0 THEN 0
    ELSE d[Len(d)][col] + Total(SubSeq(d, 1, Len(d) - 1), col)

\* fraction q is the number n / m
IsQuotient(q, n, m) == q.den > 0 /\ q.num * m = n * q.den

\* the sum of the values of a grouped series
RECURSIVE SeriesTotal(_)
SeriesTotal(s) == IF s = <<>> THEN 0 ELSE Head(s).value + SeriesTotal(Tail(s))

ZeroKpis ==
    /\ kpis.total_sales = 0
    /\ kpis.average_profit = Zero
    /\ kpis.average_quantity = Zero
    /\ kpis.total_orders = 0

\* C1: a dimension whose selection is empty filters like one whose selection
\* is ['All']: the view equals the one obtained with that selection replaced
\* by ['All'], the other selections being equal.
C1_EmptySelectionMeansAll ==
    Ran => \A c \in Dims :
        selection[c] = {} =>
            filtered_df = apply_filters(df, [selection EXCEPT ![c] = {"All"}])

\* C2: the filtered view holds exactly the rows of the dataset that, for each
\* dimension whose selection lacks 'All', have their value in the selection;
\* it is a subset of the input, no longer than it, in input order.
C2_FilterExact ==
    Ran =>
        /\ filtered_df = SelectSeq(df, LAMBDA r : Matches(r, selection))
        /\ Range(filtered_df) \subseteq Range(df)
        /\ Len(filtered_df) <= Len(df)
        /\ \A i, j \in DOMAIN filtered_df :
              i < j => filtered_df[i].Index < filtered_df[j].Index

\* two dimensions are constrained and the view keeps some rows and drops others
C2_Witness ==
    /\ Ran
    /\ "All" \notin selection["Region"] /\ selection["Region"] # {}
    /\ "All" \notin selection["Category"] /\ selection["Category"] # {}
    /\ Len(filtered_df) > 0
    /\ Len(filtered_df) < Len(df)
    /\ \E i \in DOMAIN df :
          df[i]["Region"] \in selection["Region"]
          /\ df[i]["Category"] \notin selection["Category"]

\* C3: when every selection contains 'All' the view is the whole dataset, in
\* content and order; a dimension whose selection contains 'All' constrains
\* nothing, whatever else is selected with it.
C3_AllImposesNoConstraint ==
    Ran =>
        /\ (\A c \in Dims : "All" \in selection[c]) => filtered_df = df
        /\ \A c \in Dims :
              "All" \in selection[c] =>
                  filtered_df = SelectSeq(df, LAMBDA r : MatchesExcept(r, selection, c))

\* 'All' is selected together with a region that some row does not have, and
\* the view is still the whole dataset
C3_Witness ==
    /\ Ran
    /\ \A c \in Dims : "All" \in selection[c]
    /\ selection["Region"] = {"All", "North"}
    /\ \E i \in DOMAIN df : df[i]["Region"] = "South"
    /\ filtered_df = df

\* C4: filtering the filtered view again with the same selection gives the
\* same rows in the same order.
C4_Idempotent == Ran => apply_filters(filtered_df, selection) = filtered_df

\* a constrained selection has dropped some rows and kept others
C4_Witness ==
    /\ Ran
    /\ \E c \in Dims : "All" \notin selection[c]
    /\ Len(filtered_df) > 0
    /\ Len(filtered_df) < Len(df)
    /\ apply_filters(filtered_df, selection) = filtered_df

\* C5: on an empty view all four KPIs are 0 (no NaN); on a non-empty view
\* total_orders is the number of rows, total_sales the sum of Sales, and
\* average_profit and average_quantity the means of Profit and Quantity.
C5_Kpis ==
    Ran =>
        IF Len(filtered_df) = 0
        THEN ZeroKpis
        ELSE /\ kpis.total_orders = Len(filtered_df)
             /\ kpis.total_sales = Total(filtered_df, "Sales")
             /\ IsQuotient(kpis.average_profit,
                           Total(filtered_df, "Profit"), Len(filtered_df))
             /\ IsQuotient(kpis.average_quantity,
                           Total(filtered_df, "Quantity"), Len(filtered_df))

\* KPIs of a three-row view whose mean quantity is no whole number
C5_Witness ==
    /\ Ran
    /\ Len(filtered_df) = 3
    /\ kpis.total_orders = 3
    /\ kpis.average_quantity.den = 3
    /\ kpis.total_sales > 0

C7_FullGrid ==
    (Ran /\ "charts" \in rendered) =>
        /\ DOMAIN charts.order_counts
              = Range(customer_segments) \X Range(shipping_types)
        /\ \A p \in DOMAIN charts.order_counts :
              charts.order_counts[p] =
                  Cardinality({i \in DOMAIN filtered_df :
                      /\ filtered_df[i]["Customer_Segment"] = p[1]
                      /\ filtered_df[i]["Shipping_Type"] = p[2]})

\* C8: the full dataset has the rows, in the order and number, that it had
\* when it was first generated.
C8_DatasetNeverChanges == df = df0 /\ Len(df) = Len(df0)

\* C9: an empty view shows four zero KPIs and the 'no data' warning and runs
\* no chart step; a non-empty view gets its charts and no 'no data' notice;
\* every pass renders, with defined KPIs.
C9_EmptyViewPolicy ==
    Ran =>
        /\ "kpi_cards" \in rendered
        /\ kpis.average_profit # NaN /\ kpis.average_quantity # NaN
        /\ IF Len(filtered_df) = 0
           THEN /\ ZeroKpis
                /\ "charts" \notin rendered
                /\ charts = NoCharts
                /\ "warning_no_data" \in rendered
           ELSE /\ "charts" \in rendered
                /\ charts = create_visualizations(filtered_df)
                /\ "warning_no_data" \notin rendered
                /\ "info_no_data" \notin rendered

\* after a selection change the view of a non-empty dataset is empty
C9_Witness ==
    /\ runs > 1
    /\ Len(df) > 0
    /\ Len(filtered_df) = 0
    /\ "warning_no_data" \in rendered
    /\ "charts" \notin rendered
    /\ ZeroKpis

\* C10: two runs of the program with the same seed generate the same records.
C10_SameSeedSameRecords == other_df = df0

====
